---- MODULE Spec2Model ----
(***************************************************************************)
(* PINVIT (preconditioned inverse iteration) as written in the notebook    *)
(* docs/src/notebooks/"Vectors and Matrices.ipynb": the two stepChoice     *)
(* functions (constant coefficients, Rayleigh-Ritz) and the driver loop    *)
(* `for it in range(itMax)`.                                               *)
(*                                                                         *)
(* Numbers are exact rationals <<numerator, denominator>> in lowest terms  *)
(* with a positive denominator; vectors have two components and operators  *)
(* are 2x2 matrices given by their rows.  Spec runs the loop without       *)
(* round-off; SpecFloat lets the quotient rho carry a relative rounding    *)
(* error of at most 1/Precision.                                           *)
(***************************************************************************)
EXTENDS Integers, Sequences, FiniteSets, TLC

\* Bounds of the model.  The notebook sets itMax = 10; here itMax is drawn
\* from 1..MaxItMax because exact rationals grow too quickly for ten passes.
MaxItMax == 3
\* A pass is only taken from an iterate whose numerators and denominators
\* are at most MaxMag (keeps the exact arithmetic inside TLC's integers).
MaxMag == 64
\* rho is a Python float: the computed quotient is the exact one times
\* 1 + d with |d| <= 1/Precision (2^53 for a double).
Precision == 16

(***************************************************************************)
(* Exact rational arithmetic (Python float / PetscScalar, without          *)
(* rounding).                                                              *)
(***************************************************************************)
Abs(x) == IF x < 0 THEN -x ELSE x

RECURSIVE GCD(_, _)
GCD(a, b) == IF b = 0 THEN a ELSE GCD(b, a % b)

\* n/d in lowest terms, g the gcd of |n| and |d|
Lowest(n, d, g) ==
    IF d < 0 THEN <<(0 - n) \div g, (0 - d) \div g>> ELSE <<n \div g, d \div g>>

Rat(n, d) == Lowest(n, d, GCD(Abs(n), Abs(d)))

Zero == <<0, 1>>
One  == <<1, 1>>
Half == <<1, 2>>

RNeg(a) == <<-a[1], a[2]>>

\* a + b, g the gcd of the denominators
AddOver(a, b, g) ==
    Rat(a[1] * (b[2] \div g) + b[1] * (a[2] \div g), (a[2] \div g) * b[2])

RAdd(a, b) == AddOver(a, b, GCD(a[2], b[2]))

RSub(a, b) == RAdd(a, RNeg(b))

\* a * b, g1 = gcd(|a[1]|, b[2]) and g2 = gcd(|b[1]|, a[2]) cancelled first
MulOver(a, b, g1, g2) ==
    <<(a[1] \div g1) * (b[1] \div g2), (a[2] \div g2) * (b[2] \div g1)>>

RMul(a, b) == MulOver(a, b, GCD(Abs(a[1]), b[2]), GCD(Abs(b[1]), a[2]))

\* a / b for b # 0
RDiv(a, b) ==
    RMul(a, IF b[1] < 0 THEN <<0 - b[2], 0 - b[1]>> ELSE <<b[2], b[1]>>)

RLeq(a, b) == RSub(a, b)[1] <= 0
RLt(a, b)  == RSub(a, b)[1] < 0

RECURSIVE ISqrtBetween(_, _, _)
ISqrtBetween(n, lo, hi) ==
    IF lo >= hi THEN lo
    ELSE IF ((lo + hi + 1) \div 2) * ((lo + hi + 1) \div 2) <= n
         THEN ISqrtBetween(n, (lo + hi + 1) \div 2, hi)
         ELSE ISqrtBetween(n, lo, ((lo + hi + 1) \div 2) - 1)

\* the integer square root of n
ISqrt(n) == ISqrtBetween(n, 0, IF n < 46340 THEN n ELSE 46340)

\* sqrt(a) for a rational square a
RSqrt(a) == <<ISqrt(a[1]), ISqrt(a[2])>>

IsSquare(a) == a[1] >= 0 /\ RMul(RSqrt(a), RSqrt(a)) = a

(***************************************************************************)
(* PETSc Vec and Mat operations used by the notebook.                      *)
(***************************************************************************)
\* x.dot(y)
Dot(x, y) == RAdd(RMul(x[1], y[1]), RMul(x[2], y[2]))

\* the vector with components f[1], f[2]
Vec(f) == <<f[1], f[2]>>

\* Op.mult(x, y): the value written into y
Mult(Op, x) == Vec([i \in 1..2 |-> Dot(Op[i], x)])

\* a*x + b*y on Vec (each product and the sum allocate a new Vec)
Axpby(a, x, b, y) == Vec([i \in 1..2 |-> RAdd(RMul(a, x[i]), RMul(b, y[i]))])

ZeroVec == <<Zero, Zero>>

\* the numerators and denominators of x are at most MaxMag
Fits(x) ==
    \A i \in 1..2 : Abs(x[i][1]) <= MaxMag /\ x[i][2] <= MaxMag

(***************************************************************************)
(* scipy.linalg.eigh(a, b) for 2x2 inputs: a v = omega b v, eigenvalues    *)
(* ascending, eigenvectors the columns of evec, normalised v^T b v = 1.    *)
(* Only the lower triangles of a and b are read (lower=True).  b that is   *)
(* not positive definite raises LinAlgError.  The sign of an eigenvector   *)
(* is not fixed by the contract, so both signs are outcomes.               *)
(***************************************************************************)
Det(m) == RSub(RMul(m[1][1], m[2][2]), RMul(m[2][1], m[2][1]))

PositiveDefinite(b) == RLt(Zero, b[1][1]) /\ RLt(Zero, Det(b))

\* omega^2 - Trace*omega + Prod = 0 is det(a - omega b) = 0 divided by det b
PencilTrace(a, b) ==
    RDiv(RSub(RAdd(RMul(a[1][1], b[2][2]), RMul(a[2][2], b[1][1])),
              RMul(<<2, 1>>, RMul(a[2][1], b[2][1]))),
         Det(b))

PencilProd(a, b) == RDiv(Det(a), Det(b))

\* tr^2 - 4 pr
Disc(tr, pr) == RSub(RMul(tr, tr), RMul(<<4, 1>>, pr))

PencilDisc(a, b) == Disc(PencilTrace(a, b), PencilProd(a, b))

\* the k-th eigenvalue, k = 1 the smallest: (tr -/+ sqrt(disc)) / 2
Root(tr, r, k) == RMul(Half, IF k = 1 THEN RSub(tr, r) ELSE RAdd(tr, r))

Eigenvalue(a, b, k) == Root(PencilTrace(a, b), RSqrt(PencilDisc(a, b)), k)

\* v scaled so that its first nonzero component is 1
Primitive(v) ==
    IF v[1] # Zero THEN <<One, RDiv(v[2], v[1])>>
    ELSE IF v[2] # Zero THEN <<Zero, One>>
    ELSE v

\* a null vector of the singular symmetric matrix with lower triangle
\* c11, c21, c22; when the matrix is zero (equal eigenvalues) a basis
\* orthogonal with respect to b
Kernel(c11, c21, c22, b, k) ==
    IF <<c21, c11>> # ZeroVec THEN Primitive(<<c21, RNeg(c11)>>)
    ELSE IF <<c22, c21>> # ZeroVec THEN Primitive(<<c22, RNeg(c21)>>)
    ELSE IF k = 1 THEN <<One, Zero>>
    ELSE Primitive(<<RNeg(b[2][1]), b[1][1]>>)

\* a null vector of a - l b
NullVectorAt(a, b, k, l) ==
    Kernel(RSub(a[1][1], RMul(l, b[1][1])),
           RSub(a[2][1], RMul(l, b[2][1])),
           RSub(a[2][2], RMul(l, b[2][2])), b, k)

NullVector(a, b, k) == NullVectorAt(a, b, k, Eigenvalue(a, b, k))

\* v^T b v
BNorm2(b, v) ==
    RAdd(RAdd(RMul(b[1][1], RMul(v[1], v[1])),
              RMul(<<2, 1>>, RMul(b[2][1], RMul(v[1], v[2])))),
         RMul(b[2][2], RMul(v[2], v[2])))

\* v / n
Scaled(v, n) == Vec([i \in 1..2 |-> RDiv(v[i], n)])

\* v scaled to v^T b v = 1
Normalised(b, v) == Scaled(v, RSqrt(BNorm2(b, v)))

\* the eigenvectors can be written down as rationals of bounded size
Representable(a, b) ==
    /\ IsSquare(PencilDisc(a, b))
    /\ \A k \in 1..2 : Fits(NullVector(a, b, k))
    /\ \A k \in 1..2 : IsSquare(BNorm2(b, NullVector(a, b, k)))

\* the matrix with columns sgn*c1, sgn*c2
Columns(c1, c2, sgn) ==
    [i \in 1..2 |-> <<RMul(<<sgn, 1>>, c1[i]), RMul(<<sgn, 1>>, c2[i])>>]

\* the possible results of eigh(a=a, b=b): evec[i][j] is row i, column j
Eigh(a, b) ==
    IF ~PositiveDefinite(b)
    THEN {[err |-> "LinAlgError", evec |-> <<ZeroVec, ZeroVec>>]}
    ELSE {[err |-> "none",
           evec |-> Columns(Normalised(b, NullVector(a, b, 1)),
                            Normalised(b, NullVector(a, b, 2)), sgn)] :
          sgn \in {1, -1}}

(***************************************************************************)
(* State of the notebook while a PINVIT cell runs.                         *)
(***************************************************************************)
VARIABLES
    A,         \* A.mat, the stiffness matrix
    M,         \* M.mat, the mass matrix
    pc,        \* the PETSc PC: the matrix pc.apply multiplies by
    selector,  \* which definition of stepChoice is bound
    itMax,     \* the loop bound
    u0,        \* the iterate
    w,         \* the direction, written by pc.apply
    it,        \* the loop variable; NoIt before the first pass
    rho,       \* the Rayleigh quotient; NoRho before the first pass
    out,       \* the lines printed so far, as <<it, rho>>
    status,    \* "running", "done" (range exhausted) or "raised"
    err,       \* the exception that left the loop, or "none"
    c,         \* scale factor of the comparison run
    twin       \* the comparison run started from c*u0 (SpecScale only)

vars == <<A, M, pc, selector, itMax, u0, w, it, rho, out, status, err, c, twin>>

NoIt  == 0 - 1
NoRho == <<0, 0>>

\* Variants of RayleighQuotient: the division left out; the mass term of the
\* denominator taken twice.
RayleighQuotientUnnormalised(Au0, Mu0, u) == Dot(Au0, u)

RayleighQuotientMassSquared(Au0, Mu0, u) == RDiv(Dot(Au0, u), Dot(Mu0, Mu0))

\* rho = Au0.dot(u0)/Mu0.dot(u0)
RayleighQuotient(Au0, Mu0, u) == RDiv(Dot(Au0, u), Dot(Mu0, u))

\* What the floating-point division leaves of the exact quotient x when its
\* relative error is d - 1
Rounded(x, d) == RMul(x, d)

\* The factors 1 + d a rounding can contribute: down, exact, up.
Roundings == {Rat(Precision - 1, Precision), One, Rat(Precision + 1, Precision)}

\* u = Au0+rho*Mu0
Residual(Au0, r, Mu0) == Axpby(One, Au0, r, Mu0)

\* pc.apply(u, w): the value written into w
PcApply(P, u) == Mult(P, u)

\* smallA = np.array([[u0.dot(Au0),u0.dot(Aw)],[w.dot(Au0),w.dot(Aw)]])
Gram(u, wv, Ou, Ow) ==
    <<<<Dot(u, Ou), Dot(u, Ow)>>, <<Dot(wv, Ou), Dot(wv, Ow)>>>>

SmallMatrix(Op, wv, u) == Gram(u, wv, Mult(Op, u), Mult(Op, wv))

\* Variant of stepChoiceConstant: a full step along w.
stepChoiceConstantFullStep(Asc, Msc, wv, u) ==
    {[err |-> "none", alpha |-> <<Half, One>>, w |-> wv, u0 |-> u]}

\* The first stepChoice.  A call yields a set of outcomes; an outcome holds
\* the exception raised (or "none"), the pair returned and the argument
\* vectors as the call leaves them.
stepChoiceConstant(Asc, Msc, wv, u) ==
    {[err |-> "none", alpha |-> <<Half, Half>>, w |-> wv, u0 |-> u]}

\* Variants of stepChoiceRayleighRitz: the last column of evec (largest
\* eigenvalue) is returned; a failure of eigh is swallowed and (0.5, 0.5)
\* returned;
\* A w is written over w instead of into a duplicate.
stepChoiceLargest(Asc, Msc, wv, u) ==
    {[err |-> e.err,
      alpha |-> <<e.evec[1][2], e.evec[2][2]>>,
      w |-> wv, u0 |-> u] :
     e \in Eigh(SmallMatrix(Asc, wv, u), SmallMatrix(Msc, wv, u))}

stepChoiceFallback(Asc, Msc, wv, u) ==
    {[err |-> "none",
      alpha |-> IF e.err = "none" THEN <<e.evec[1][1], e.evec[2][1]>>
                                  ELSE <<Half, Half>>,
      w |-> wv, u0 |-> u] :
     e \in Eigh(SmallMatrix(Asc, wv, u), SmallMatrix(Msc, wv, u))}

stepChoiceOverwritesW(Asc, Msc, wv, u) ==
    {[err |-> e.err,
      alpha |-> <<e.evec[1][1], e.evec[2][1]>>,
      w |-> Mult(Asc, wv), u0 |-> u] :
     e \in Eigh(SmallMatrix(Asc, wv, u), SmallMatrix(Msc, wv, u))}

\* The second stepChoice (Rayleigh-Ritz): the products go into fresh
\* duplicates, the pair is the first column of evec.
stepChoiceRayleighRitz(Asc, Msc, wv, u) ==
    {[err |-> e.err,
      alpha |-> <<e.evec[1][1], e.evec[2][1]>>,
      w |-> wv, u0 |-> u] :
     e \in Eigh(SmallMatrix(Asc, wv, u), SmallMatrix(Msc, wv, u))}

stepChoice(sel, Asc, Msc, wv, u) ==
    IF sel = "constant" THEN stepChoiceConstant(Asc, Msc, wv, u)
                        ELSE stepChoiceRayleighRitz(Asc, Msc, wv, u)

\* u0 = alpha[0]*u0+alpha[1]*w
Update(alpha, u, wv) == Axpby(alpha[1], u, alpha[2], wv)

\* Variant of HasNext: one pass too many.
HasNextInclusive(k, n) == k < n

\* for it in range(itMax): is there a pass after pass number k
HasNext(k, n) == k + 1 < n

\* Variant of StatusAfter: the exception is swallowed and the loop goes on.
StatusAfterSwallowed(e, k, n) == IF HasNext(k, n) THEN "running" ELSE "done"

\* Where the loop stands after pass k ended with exception e ("none": no
\* exception): an exception leaves the loop, nothing catches it.
StatusAfter(e, k, n) ==
    IF e # "none" THEN "raised"
    ELSE IF HasNext(k, n) THEN "running" ELSE "done"

\* The state after the rest of pass k, once rho = r and w are computed and
\* stepChoice ended with outcome sc.
AfterStep(s, k, n, r, sc) ==
    [u0 |-> IF sc.err = "none" THEN Update(sc.alpha, sc.u0, sc.w) ELSE sc.u0,
     w |-> sc.w, it |-> k, rho |-> r, out |-> Append(s.out, <<k, r>>),
     status |-> StatusAfter(sc.err, k, n), err |-> sc.err]

\* The rest of pass k from rho = r on: print, residual, pc.apply, stepChoice,
\* update.
FromRho(Aop, Mop, P, sel, n, s, k, Au0, Mu0, r) ==
    {AfterStep(s, k, n, r, sc) :
     sc \in stepChoice(sel, Aop, Mop, PcApply(P, Residual(Au0, r, Mu0)), s.u0)}

\* Pass k from the products Au0 and Mu0 on; the division rounds by d.
FromProducts(Aop, Mop, P, sel, n, s, k, Au0, Mu0, d) ==
    IF Dot(Mu0, s.u0) = Zero
    THEN {[s EXCEPT !.it = k,
                    !.status = StatusAfter("ZeroDivisionError", k, n),
                    !.err = "ZeroDivisionError"]}
    ELSE FromRho(Aop, Mop, P, sel, n, s, k, Au0, Mu0,
                 Rounded(RayleighQuotient(Au0, Mu0, s.u0), d))

\* One pass of the loop body from driver state s (fields u0, w, it, rho,
\* out, status, err) with the division rounding by d: the set of states it
\* can end in.
DriverPassRounded(Aop, Mop, P, sel, n, s, d) ==
    FromProducts(Aop, Mop, P, sel, n, s, s.it + 1,
                 Mult(Aop, s.u0), Mult(Mop, s.u0), d)

\* The pass without round-off.
DriverPass(Aop, Mop, P, sel, n, s) ==
    DriverPassRounded(Aop, Mop, P, sel, n, s, One)

\* The direction w of the pass from iterate u (u.Mu # 0)
Direction(Aop, Mop, P, u, Au0, Mu0, d) ==
    PcApply(P, Residual(Au0, Rounded(RayleighQuotient(Au0, Mu0, u), d), Mu0))

\* eigh(a, b) raises or has a result the model can write down
EighInModel(a, b) == IF PositiveDefinite(b) THEN Representable(a, b) ELSE TRUE

RitzInModel(Aop, Mop, u, w1) ==
    /\ Fits(w1)
    /\ EighInModel(SmallMatrix(Aop, w1, u), SmallMatrix(Mop, w1, u))

\* The pass from s, rounding by d, stays inside what the model can
\* represent.
InModelRounded(Aop, Mop, P, sel, s, d) ==
    /\ Fits(s.u0)
    /\ IF sel = "constant" \/ Dot(Mult(Mop, s.u0), s.u0) = Zero
       THEN TRUE
       ELSE RitzInModel(Aop, Mop, s.u0,
                Direction(Aop, Mop, P, s.u0, Mult(Aop, s.u0), Mult(Mop, s.u0), d))

InModel(Aop, Mop, P, sel, s) == InModelRounded(Aop, Mop, P, sel, s, One)

Driver == [u0 |-> u0, w |-> w, it |-> it, rho |-> rho, out |-> out,
           status |-> status, err |-> err]

\* createVecLeft, then setRandom on u0
Fresh(u) == [u0 |-> u, w |-> ZeroVec, it |-> NoIt, rho |-> NoRho,
             out |-> <<>>, status |-> "running", err |-> "none"]

(***************************************************************************)
(* Inputs.  Operators are symmetric positive definite; pc is given by the  *)
(* matrix it applies.  setRandom draws every entry from [0, 1).            *)
(***************************************************************************)
I2(a, b) == <<a, b>>

Laplace == <<<<I2(2, 1), I2(0 - 1, 1)>>, <<I2(0 - 1, 1), I2(2, 1)>>>>
TwoI    == <<<<I2(2, 1), Zero>>, <<Zero, I2(2, 1)>>>>
DiagA   == <<<<One, Zero>>, <<Zero, I2(8, 1)>>>>
DiagM   == <<<<One, Zero>>, <<Zero, I2(4, 1)>>>>

Operators ==
    { \* Jacobi preconditioner: commutes with A and M
      [A |-> Laplace, M |-> TwoI, pc |-> <<<<Half, Zero>>, <<Zero, Half>>>>],
      \* a preconditioner that does not commute with them
      [A |-> Laplace, M |-> TwoI, pc |-> <<<<One, Zero>>, <<Zero, Half>>>>],
      [A |-> DiagA, M |-> DiagM, pc |-> <<<<One, Half>>, <<Half, One>>>>],
      [A |-> DiagA, M |-> DiagM, pc |-> <<<<Half, Zero>>, <<Zero, I2(1, 16)>>>>] }

InitialVectors ==
    { ZeroVec, <<Half, Zero>>, <<Zero, Half>>, <<Half, Half>>,
      <<Half, I2(1, 4)>>, <<I2(1, 4), Half>>, <<I2(3, 4), I2(1, 4)>> }

Scales == { I2(2, 1), I2(0 - 1, 1), I2(1, 2), I2(0 - 3, 2) }

InitDriver ==
    /\ \E o \in Operators : A = o.A /\ M = o.M /\ pc = o.pc
    /\ selector \in {"constant", "RayleighRitz"}
    /\ itMax \in 1..MaxItMax
    /\ u0 \in InitialVectors
    /\ w = ZeroVec
    /\ it = NoIt
    /\ rho = NoRho
    /\ out = <<>>
    /\ status = "running"
    /\ err = "none"

Init ==
    /\ InitDriver
    /\ c = One
    /\ twin = Fresh(u0)

\* One pass of the loop that rounds by d and ends with exception e ("none":
\* no exception).
PassRounded(e, d) ==
    /\ status = "running"
    /\ InModelRounded(A, M, pc, selector, Driver, d)
    /\ \E r \in DriverPassRounded(A, M, pc, selector, itMax, Driver, d) :
          /\ r.err = e
          /\ u0' = r.u0
          /\ w' = r.w
          /\ it' = r.it
          /\ rho' = r.rho
          /\ out' = r.out
          /\ status' = r.status
          /\ err' = r.err
    /\ UNCHANGED <<A, M, pc, selector, itMax, c>>

Pass(e) == PassRounded(e, One)

PassOk == Pass("none") /\ UNCHANGED twin

PassZeroDivision == Pass("ZeroDivisionError") /\ UNCHANGED twin

PassLinAlgError == Pass("LinAlgError") /\ UNCHANGED twin

Next == PassOk \/ PassZeroDivision \/ PassLinAlgError

Spec == Init /\ [][Next]_vars

(***************************************************************************)
(* Two runs side by side: the run above and one started from c*u0, with    *)
(* the same operators, preconditioner and selector.                        *)
(***************************************************************************)
InitScale ==
    /\ InitDriver
    /\ c \in Scales
    /\ twin = Fresh(Axpby(c, u0, Zero, u0))

PassBoth ==
    /\ twin.status = "running"
    /\ InModel(A, M, pc, selector, twin)
    /\ \E e \in {"none", "ZeroDivisionError", "LinAlgError"} : Pass(e)
    /\ twin' \in DriverPass(A, M, pc, selector, itMax, twin)

NextScale == PassBoth

SpecScale == InitScale /\ [][NextScale]_vars

(***************************************************************************)
(* The loop in floating point: in every pass the division that yields rho  *)
(* rounds down, not at all, or up.                                         *)
(***************************************************************************)
PassFloat ==
    /\ \E d \in Roundings :
          \E e \in {"none", "ZeroDivisionError", "LinAlgError"} : PassRounded(e, d)
    /\ UNCHANGED twin

NextFloat == PassFloat

SpecFloat == Init /\ [][NextFloat]_vars

(***************************************************************************)
(* Properties.  They are stated with Dot, Mult and Axpby, not with the     *)
(* operators of the loop body they are about.                              *)
(***************************************************************************)
\* (u.Au)/(u.Mu) for u with u.Mu # 0
Quotient(u) == RDiv(Dot(u, Mult(A, u)), Dot(u, Mult(M, u)))

\* a step of the loop that got as far as computing rho and calling stepChoice
CalledSelector == it' = it + 1 /\ err' # "ZeroDivisionError"

\* u and v are linearly dependent
Dependent(u, v) == RMul(u[1], v[2]) = RMul(u[2], v[1])

Last(q) == q[Len(q)]

\* C1: in every pass the direction handed to stepChoice is the
\* preconditioner applied to A u - rho M u, u the iterate at the start of
\* the pass and rho its Rayleigh quotient.
C1_DirectionIsPreconditionedResidual ==
    [][CalledSelector =>
          /\ rho' = Quotient(u0)
          /\ w' = Mult(pc, Axpby(One, Mult(A, u0), RNeg(rho'), Mult(M, u0)))]_vars

\* C2 as stated: whenever the driver has stopped it has printed exactly
\* itMax lines, numbered 0 .. itMax-1.
C2_StopsAfterExactlyItMaxPasses ==
    status # "running" =>
        /\ Len(out) = itMax
        /\ \A i \in 1..Len(out) : out[i][1] = i - 1

\* C2 amended: the lines printed are numbered 0, 1, ... in order, one per
\* pass, never more than itMax of them and no pass has an index above
\* itMax-1; a run in which no pass raises stops after exactly itMax passes;
\* a pass that raises ends the loop at once (a ZeroDivisionError before its
\* line is printed, a LinAlgError from stepChoice after).
C2_AtMostItMaxPasses ==
    /\ \A i \in 1..Len(out) : out[i][1] = i - 1
    /\ it < itMax
    /\ Len(out) <= itMax
    /\ status = "running" => Len(out) = it + 1 /\ it < itMax - 1 /\ err = "none"
    /\ status = "done" => Len(out) = itMax /\ it = itMax - 1 /\ err = "none"
    /\ status = "raised" =>
          /\ err \in {"ZeroDivisionError", "LinAlgError"}
          /\ Len(out) = IF err = "ZeroDivisionError" THEN it ELSE it + 1

C2_Witness == status = "done" /\ Len(out) = itMax /\ itMax > 1

Combos == {ab \in (-2..2) \X (-2..2) : ab # <<0, 0>>}

C4_RitzPairMinimisesQuotient ==
    [][(CalledSelector /\ selector = "RayleighRitz" /\ ~Dependent(u0, w')) =>
          /\ err' = "none"
          /\ \A sc \in stepChoiceRayleighRitz(A, M, w', u0) :
                LET al == sc.alpha
                    x  == Axpby(al[1], u0, al[2], w')
                    sA == <<<<Dot(u0, Mult(A, u0)), Dot(u0, Mult(A, w'))>>,
                            <<Dot(w', Mult(A, u0)), Dot(w', Mult(A, w'))>>>>
                    sM == <<<<Dot(u0, Mult(M, u0)), Dot(u0, Mult(M, w'))>>,
                            <<Dot(w', Mult(M, u0)), Dot(w', Mult(M, w'))>>>>
                    om == Quotient(x)
                IN  /\ sc.err = "none"
                    /\ \A i \in 1..2 :
                          Dot(sA[i], al) = RMul(om, Dot(sM[i], al))
                    /\ RLeq(om, Quotient(u0))
                    /\ \A ab \in Combos :
                          RLeq(om, Quotient(Axpby(<<ab[1], 1>>, u0,
                                                  <<ab[2], 1>>, w')))
          /\ \E sc \in stepChoiceRayleighRitz(A, M, w', u0) :
                u0' = Axpby(sc.alpha[1], u0, sc.alpha[2], w')]_vars

C4_Witness ==
    /\ selector = "RayleighRitz"
    /\ Len(out) = 1
    /\ err = "none"
    /\ ~Dependent(u0, w)
    /\ RLt(Quotient(u0), out[1][2])

\* C5: the constant stepChoice returns (0.5, 0.5) whatever its arguments
\* (zero and dependent vectors included), and a pass with it sets
\* u0 to 0.5 u0 + 0.5 w.
C5_ConstantPairAndUpdate ==
    [][/\ \A x \in InitialVectors \cup {w, w'}, y \in InitialVectors \cup {u0, u0'} :
             \A sc \in stepChoiceConstant(A, M, x, y) :
                 sc.err = "none" /\ sc.alpha = <<Half, Half>>
       /\ (CalledSelector /\ selector = "constant") =>
             /\ err' = "none"
             /\ u0' = Axpby(Half, u0, Half, w')]_vars

C5_Witness ==
    /\ selector = "constant"
    /\ Len(out) >= 2
    /\ err = "none"
    /\ Fits(u0)
    /\ Fits(w)
    /\ Dependent(u0, w)

\* C6: the run started from c u0 prints the same Rayleigh quotients, pass
\* for pass, as the run started from u0 (and stops the same way).
C6_ScaleInvariance ==
    /\ out = twin.out
    /\ status = twin.status
    /\ err = twin.err

C6_Witness ==
    /\ c # One
    /\ status = "done"
    /\ Len(out) >= 2
    /\ twin.u0 # u0
    /\ out[1][2] # out[2][2]

C8_FailureAbortsAndKeepsState ==
    [][/\ status # "running" => UNCHANGED vars
       /\ (it' = it + 1 /\ err' # "none") =>
             /\ status' = "raised"
             /\ u0' = u0
             /\ IF err' = "ZeroDivisionError"
                THEN /\ Dot(Mult(M, u0), u0) = Zero
                     /\ rho' = rho /\ out' = out /\ w' = w
                ELSE /\ rho' = Quotient(u0)
                     /\ out' = Append(out, <<it', rho'>>)
       /\ (it' = it + 1 /\ err' = "none") => status' # "raised"]_vars

C8_Witness == status = "raised" /\ it >= 1 /\ Len(out) = it + 1

\* C9 as stated: when the driver has terminated, rho is the Rayleigh
\* quotient of the final iterate.
C9_FinalRhoIsQuotientOfFinalIterate ==
    status = "done" => RMul(rho, Dot(u0, Mult(M, u0))) = Dot(u0, Mult(A, u0))

\* C9 amended: rho is the Rayleigh quotient of the iterate the last pass
\* started from; the iterate left behind is one update further on.
C9_RhoIsQuotientOfIterateBeforeUpdate ==
    [][CalledSelector =>
          /\ RMul(rho', Dot(u0, Mult(M, u0))) = Dot(u0, Mult(A, u0))
          /\ Last(out') = <<it', rho'>>]_vars

C9_Witness ==
    /\ status = "done"
    /\ Fits(u0)
    /\ RMul(rho, Dot(u0, Mult(M, u0))) # Dot(u0, Mult(A, u0))

\* C10: no step changes A, M or the preconditioner (nor which stepChoice is
\* bound, nor itMax), and a stepChoice call leaves its argument vectors as
\* they were: w stays what pc.apply wrote and u0 is only rebound by the
\* update after the call.
C10_OperatorsAndArgumentsUntouched ==
    [][/\ UNCHANGED <<A, M, pc, selector, itMax>>
       /\ CalledSelector =>
             LET w1 == Mult(pc, Axpby(One, Mult(A, u0), rho', Mult(M, u0)))
             IN  /\ w' = w1
                 /\ \A sc \in stepChoice(selector, A, M, w1, u0) :
                       sc.w = w1 /\ sc.u0 = u0
                 /\ err' # "none" => u0' = u0]_vars

C10_Witness ==
    /\ selector = "RayleighRitz"
    /\ status = "running"
    /\ it >= 1
    /\ w # ZeroVec

====
